---- MODULE Spec2Model ----
(***************************************************************************)
(* Order-fulfilment integration layer of the logistics backend:            *)
(* routes/integration.js (placeOrder, updateStatus), services/             *)
(* databaseService.js (the MongoDB / mock-data switch), services/          *)
(* googleMapsService.js (calculateRoute), the Order / Product / Delivery   *)
(* models and the validated order and inventory routes.  The status       *)
(* methods of the Delivery model and GoogleMapsService.                    *)
(* optimizeDeliveryRoute are exercised on their own (SpecDelivery,         *)
(* SpecMaps).                                                              *)
(*                                                                         *)
(* Node runs a handler until it awaits the completion of I/O (a MongoDB     *)
(* or HTTP round trip).  An `await` in a mock-data branch resolves without *)
(* I/O: the handler goes on in the same turn of the event loop and no      *)
(* other request or event comes in between.  The variable `running` names  *)
(* the request that holds the event loop, 0 when every handler waits.      *)
(***************************************************************************)
EXTENDS Integers, Sequences, FiniteSets, TLC

(***************************************************************************)
(* Bounds of the model.                                                    *)
(***************************************************************************)
\* number of POST /api/integration/order requests of one behaviour
NumReq == 2
\* stock of every sample product at start-up (the code draws 10..1009)
InitStock == 2
\* reorder_level of every sample product (the code draws 5..54)
InitReorder == 1
\* POST /api/integration/order requests a client of Spec keeps in flight
MaxInFlight == 1
\* connection events ('connected', 'disconnected') of one behaviour
MaxConnectionEvents == 1
\* last reading of the clock (`new Date()`) of one behaviour
MaxClock == 3
\* longest destination list handed to optimizeDeliveryRoute
MaxDestinations == 3
\* largest distance (meters) and duration (seconds) the provider reports
\* for one leg
MaxLeg == 2

(***************************************************************************)
(* Program constants.                                                      *)
(***************************************************************************)
\* `product.stock_quantity || product.quantity || 100`
DefaultStock == 100
\* `product.reorder_level || product.min_stock_level || 10`
DefaultReorder == 10
\* `order.quantity > 3 ? 'high' : 'normal'`
HighPriorityAbove == 3

(***************************************************************************)
(* JavaScript values.  A number is [t |-> "num", v |-> n]; NaN and         *)
(* undefined are values of their own, and arithmetic, comparison and       *)
(* truthiness follow the language.                                         *)
(***************************************************************************)
Num(n) == [t |-> "num", v |-> n]
NaN == [t |-> "NaN", v |-> 0]
Undefined == [t |-> "undefined", v |-> 0]

\* ToNumber of a number or of undefined
ToNumber(x) == IF x.t = "num" THEN x ELSE NaN

\* a - b
JsSub(a, b) ==
  IF ToNumber(a).t = "num" /\ ToNumber(b).t = "num" THEN Num(a.v - b.v) ELSE NaN

\* Math.max(a, b): NaN as soon as one argument is NaN
MathMax(a, b) ==
  IF ToNumber(a).t = "num" /\ ToNumber(b).t = "num"
  THEN Num(IF a.v >= b.v THEN a.v ELSE b.v)
  ELSE NaN

\* a < b, a <= b, a > b, a >= b: false as soon as one side is NaN
JsLt(a, b) == ToNumber(a).t = "num" /\ ToNumber(b).t = "num" /\ a.v < b.v
JsLe(a, b) == ToNumber(a).t = "num" /\ ToNumber(b).t = "num" /\ a.v <= b.v
JsGt(a, b) == JsLt(b, a)
JsGe(a, b) == JsLe(b, a)

\* truthiness of a number: 0, NaN and undefined are falsy
Truthy(x) == x.t = "num" /\ x.v # 0

\* a || b
JsOr(a, b) == IF Truthy(a) THEN a ELSE b

(***************************************************************************)
(* Strings that are searched are sequences of one-letter strings;          *)
(* undefined is the value NoStr.                                           *)
(***************************************************************************)
Str(s) == [t |-> "str", s |-> s]
NoStr == [t |-> "undefined", s |-> <<>>]

\* String.prototype.toLowerCase over the letters the model uses
LowerOf(c) == IF c = "T" THEN "t" ELSE IF c = "P" THEN "p" ELSE c
toLowerCase(s) == [i \in 1..Len(s) |-> LowerOf(s[i])]

\* String.prototype.includes
includes(hay, needle) ==
  \E i \in 0..(Len(hay) - Len(needle)) :
    \A j \in 1..Len(needle) : hay[i + j] = needle[j]

(***************************************************************************)
(* Enumerations of the models.                                             *)
(***************************************************************************)
OrderStatuses == {"pending", "shipped", "delivered", "cancelled"}
DeliveryStatuses ==
  {"pending", "picked_up", "in_transit", "delivered", "failed", "cancelled"}
ProductStatuses == {"active", "inactive", "discontinued"}
\* the JavaScript value undefined where a status string is expected
NoStatus == "undefined"


(***************************************************************************)
(* Identifiers.  The mock models draw an integer id, MongoDB assigns an    *)
(* ObjectId; a value of one kind never equals a value of the other, and    *)
(* MongoDB cannot cast an integer to an ObjectId.  Ids drawn at random     *)
(* are taken to be distinct: the n-th request gets n.                      *)
(***************************************************************************)
IntId(n) == [k |-> "int", n |-> n]
ObjectId(n) == [k |-> "oid", n |-> n]
NoId == [k |-> "none", n |-> 0]

(***************************************************************************)
(* Request bodies of POST /api/integration/order.  A text field that is    *)
(* absent or empty is "".                                                  *)
(***************************************************************************)
ReqIds == 1..NumReq

BaseInput ==
  [customer_name |-> "Ann", customer_email |-> "ann@x.io",
   product_name |-> Str(<<"t", "v">>), quantity |-> Num(1), price |-> Num(1),
   delivery_address |-> "1 Main St", status |-> NoStatus]

\* bodies with every required field: a product that is found or not, a
\* quantity the stock covers or not, with or without a status field
CompleteInputs ==
  { [BaseInput EXCEPT !.product_name = Str(n), !.quantity = Num(q)] :
      n \in {<<"t", "v">>, <<"z">>}, q \in {1, InitStock + 1} }
  \cup { [BaseInput EXCEPT !.status = "shipped"] }

\* bodies with exactly one required field absent or out of range
DefectiveInputs ==
  { [BaseInput EXCEPT !.customer_name = ""],
    [BaseInput EXCEPT !.customer_email = ""],
    [BaseInput EXCEPT !.product_name = NoStr],
    [BaseInput EXCEPT !.delivery_address = ""],
    [BaseInput EXCEPT !.quantity = Undefined],
    [BaseInput EXCEPT !.quantity = Num(0)],
    [BaseInput EXCEPT !.price = Num(0)] }

OrderInputs == CompleteInputs \cup DefectiveInputs

\* bodies of orders placed at the same time: the product both orders ask
\* for is in stock
ConcurrentInputs ==
  { [BaseInput EXCEPT !.quantity = Num(q)] : q \in 1..(InitStock + 1) }

(***************************************************************************)
(* State.                                                                  *)
(***************************************************************************)
VARIABLES
  isMongoConnected,  \* DatabaseService.isMongoConnected
  mockOrders,        \* mockDataService.orders
  mockProducts,      \* mockDataService.products
  mockDeliveries,    \* mockDataService.deliveries
  mockWarehouses,    \* mockDataService.warehouses
  mongoOrders,       \* the MongoOrder collection
  mongoProducts,     \* the MongoProduct collection
  mongoDeliveries,   \* the MongoDelivery collection
  mongoWarehouses,   \* the MongoWarehouse collection
  req,               \* the POST /api/integration/order requests
  running,           \* the request that holds the event loop, or 0
  connectionEvents,  \* connection events so far
  delivery,          \* the Delivery object or MongoDelivery document whose
                     \* status is updated
  clock,             \* the reading of `new Date()`
  geocode,           \* the last geocoding call: its address, the provider calls made, its outcome
  bulk,              \* the last POST /api/delivery/bulk-optimize: its input and response
  warehouse,         \* the zones of a Warehouse object, and how many the last removeZone took
  maps               \* the last call of optimizeDeliveryRoute: its
                     \* arguments, the provider calls made, its result

vars ==
  <<isMongoConnected, mockOrders, mockProducts, mockDeliveries, mockWarehouses,
    mongoOrders, mongoProducts, mongoDeliveries, mongoWarehouses, req,
    running, connectionEvents, delivery, clock, geocode, bulk, warehouse, maps>>

\* the state of the model and service methods exercised on their own
methodVars == <<delivery, clock, geocode, bulk, warehouse, maps>>

stores ==
  <<mockOrders, mockProducts, mockDeliveries, mockWarehouses, mongoOrders,
    mongoProducts, mongoDeliveries, mongoWarehouses>>

\* the sample products of MockDataService.generateProducts, which
\* transferMockDataToMongo copies to MongoDB
SampleProducts(kind) ==
  << [id |-> [k |-> kind, n |-> 1], name |-> <<"T", "v">>,
      stock_quantity |-> Num(InitStock), reorder_level |-> Num(InitReorder),
      status |-> "active"],
     [id |-> [k |-> kind, n |-> 2], name |-> <<"P", "c">>,
      stock_quantity |-> Num(InitStock), reorder_level |-> Num(InitReorder),
      status |-> "active"] >>

\* one of the sample orders of MockDataService.generateOrders, with the
\* delivery generateDeliveries makes for it and one of the warehouses of
\* generateWarehouses; transferMockDataToMongo copies them to MongoDB
SampleOrder(kind) ==
  [id |-> [k |-> kind, n |-> 0], order_id |-> 0,
   product_name |-> Str(<<"p", "c">>),
   quantity |-> Num(1), delivery_address |-> "9 Elm St", status |-> "pending"]
SampleDelivery ==
  [order_id |-> 0, status |-> "pending", priority |-> "normal",
   estimated_delivery_time |-> "estimate"]
SampleWarehouse ==
  [warehouse_id |-> 0, name |-> "Main", status |-> "active",
   capacity |-> Num(2), current_utilization |-> Num(1)]

NoOrder ==
  [id |-> NoId, order_id |-> -1, product_name |-> NoStr, quantity |-> Undefined,
   delivery_address |-> "", status |-> NoStatus]
NoInventory ==
  [state |-> "none", found |-> FALSE, previous_stock |-> Undefined,
   new_stock_level |-> Undefined]
NoUpdate == [id |-> NoId, stock_quantity |-> Undefined, status |-> NoStatus]

IdleRequest ==
  [pc |-> "idle", input |-> BaseInput, order |-> NoOrder,
   inventory |-> NoInventory, update |-> NoUpdate, route |-> "none",
   provider_down |-> FALSE, delivery |-> "none", warehouse |-> "none",
   code |-> 0]

\* `null`, the value of a timestamp that was never set
NoTime == 0

\* new Delivery({ status, pickup_time }) / a MongoDelivery document:
\* actual_delivery_time defaults to null, updated_at is the time of creation
NewDelivery(kind, status, pickup_time) ==
  [kind |-> kind, status |-> status, pickup_time |-> pickup_time,
   actual_delivery_time |-> NoTime, updated_at |-> 1]

\* no call of optimizeDeliveryRoute so far
NoCall ==
  [called |-> FALSE, destinations |-> 0, origin_is_string |-> TRUE,
   legs |-> <<>>, calls |-> 0,
   result |-> [success |-> FALSE, shape |-> "none", distance |-> 0,
               duration |-> 0]]

\* no geocoding call so far
NoGeocode ==
  [called |-> FALSE, op |-> "none", empty |-> FALSE, calls |-> 0,
   outcome |-> "none"]

\* no bulk-optimize request so far
NoBulk ==
  [called |-> FALSE, deliveries |-> 0, provider_ok |-> FALSE, code |-> 0,
   optimized_deliveries |-> <<>>]

\* new Warehouse({...}): `zones = []`
NoZones == [zones |-> <<>>, removed |-> 0]

InitStores ==
  /\ isMongoConnected \in BOOLEAN
  /\ mockOrders = <<SampleOrder("int")>>
  /\ mockProducts = SampleProducts("int")
  /\ mockDeliveries = <<SampleDelivery>>
  /\ mockWarehouses = <<SampleWarehouse>>
  /\ mongoOrders = <<SampleOrder("oid")>>
  /\ mongoProducts = SampleProducts("oid")
  /\ mongoDeliveries = <<SampleDelivery>>
  /\ mongoWarehouses = <<SampleWarehouse>>
  /\ req = [r \in ReqIds |-> IdleRequest]
  /\ running = 0
  /\ connectionEvents = 0

Init ==
  /\ InitStores
  /\ delivery = NewDelivery("object", "pending", NoTime)
  /\ clock = 1
  /\ maps = NoCall
  /\ warehouse = NoZones
  /\ bulk = NoBulk
  /\ geocode = NoGeocode


(***************************************************************************)
(* MongoDB schema validation (mongoose validators).                        *)
(***************************************************************************)
\* orderSchema: customer_name, customer_email, product_name and
\* delivery_address required (an empty string is not a value), quantity a
\* number >= 1, price a number >= 0, status in the enum
MongoOrderValid(o) ==
  /\ o.customer_name # ""
  /\ o.customer_email # ""
  /\ o.product_name.t = "str" /\ o.product_name.s # <<>>
  /\ o.quantity.t = "num" /\ o.quantity.v >= 1
  /\ o.price.t = "num" /\ o.price.v >= 0
  /\ o.delivery_address # ""
  /\ o.status \in OrderStatuses

\* productSchema, for the paths an update sets (runValidators: true):
\* stock_quantity a number >= 0, status in the enum
MongoProductUpdateValid(u) ==
  /\ u.stock_quantity.t = "num" /\ u.stock_quantity.v >= 0
  /\ u.status \in ProductStatuses

\* deliverySchema: status in the enum
MongoDeliveryValid(d) == d.status \in DeliveryStatuses

\* warehouseSchema: name, location, capacity and manager_name required
MongoWarehouseValid(w) == w.name # ""

(***************************************************************************)
(* DatabaseService.createOrder                                             *)
(***************************************************************************)
\* the document MongoDB is given: `status: orderData.status || 'pending'`
mongoOrderData(in) ==
  [in EXCEPT !.status = IF in.status = NoStatus THEN "pending" ELSE in.status]

\* new Order(orderData): `status = 'pending'` is the default of an absent field
OrderConstructor(in) ==
  [in EXCEPT !.status = IF in.status = NoStatus THEN "pending" ELSE in.status]

\* order.toJSON() of the order with id `id` made from `data`
OrderJSON(id, n, data) ==
  [id |-> id, order_id |-> n, product_name |-> data.product_name,
   quantity |-> data.quantity, delivery_address |-> data.delivery_address,
   status |-> data.status]

\* a variant of CreateOrder that goes on to step 2 when the save fails
CreateOrderGoesOn(r, in, saveError) ==
  /\ UNCHANGED methodVars
  /\ running = 0
  /\ req[r].pc = "idle"
  /\ \A q \in ReqIds : q < r => req[q].pc # "idle"
  /\ running' = IF isMongoConnected THEN 0 ELSE r
  /\ IF isMongoConnected
     THEN IF MongoOrderValid(mongoOrderData(in)) /\ ~saveError
          THEN /\ mongoOrders' =
                    Append(mongoOrders,
                           OrderJSON(ObjectId(r), r, mongoOrderData(in)))
               /\ req' = [req EXCEPT ![r] =
                    [@ EXCEPT !.pc = "inventory_read", !.input = in,
                       !.order = OrderJSON(ObjectId(r), r, mongoOrderData(in))]]
               /\ mockOrders' = mockOrders
          ELSE /\ mongoOrders' = mongoOrders
               /\ req' = [req EXCEPT ![r] =
                    [@ EXCEPT !.pc = "inventory_read", !.input = in]]
               /\ mockOrders' = mockOrders
     ELSE /\ ~saveError
          /\ mockOrders' =
               Append(mockOrders, OrderJSON(IntId(r), r, OrderConstructor(in)))
          /\ req' = [req EXCEPT ![r] =
               [@ EXCEPT !.pc = "inventory_read", !.input = in,
                  !.order = OrderJSON(IntId(r), r, OrderConstructor(in))]]
          /\ mongoOrders' = mongoOrders
  /\ UNCHANGED <<isMongoConnected, connectionEvents, mockProducts,
                 mockDeliveries, mockWarehouses, mongoProducts, mongoDeliveries,
                 mongoWarehouses>>

(***************************************************************************)
(* POST /api/integration/order, step 1: `await createOrder(req.body)`.     *)
(* The body goes to the store as it came; a MongoDB validation or save     *)
(* error is the only failure, answered with 500.                           *)
(***************************************************************************)
CreateOrder(r, in, saveError) ==
  /\ UNCHANGED methodVars
  /\ running = 0
  /\ req[r].pc = "idle"
  /\ \A q \in ReqIds : q < r => req[q].pc # "idle"
  /\ running' = IF isMongoConnected THEN 0 ELSE r
  /\ IF isMongoConnected
     THEN IF MongoOrderValid(mongoOrderData(in)) /\ ~saveError
          THEN /\ mongoOrders' =
                    Append(mongoOrders,
                           OrderJSON(ObjectId(r), r, mongoOrderData(in)))
               /\ req' = [req EXCEPT ![r] =
                    [@ EXCEPT !.pc = "inventory_read", !.input = in,
                       !.order = OrderJSON(ObjectId(r), r, mongoOrderData(in))]]
               /\ mockOrders' = mockOrders
          ELSE /\ mongoOrders' = mongoOrders
               /\ req' = [req EXCEPT ![r] =
                    [@ EXCEPT !.pc = "done", !.input = in, !.code = 500]]
               /\ mockOrders' = mockOrders
     ELSE /\ ~saveError
          /\ mockOrders' =
               Append(mockOrders, OrderJSON(IntId(r), r, OrderConstructor(in)))
          /\ req' = [req EXCEPT ![r] =
               [@ EXCEPT !.pc = "inventory_read", !.input = in,
                  !.order = OrderJSON(IntId(r), r, OrderConstructor(in))]]
          /\ mongoOrders' = mongoOrders
  /\ UNCHANGED <<isMongoConnected, connectionEvents, mockProducts,
                 mockDeliveries, mockWarehouses, mongoProducts, mongoDeliveries,
                 mongoWarehouses>>


(***************************************************************************)
(* DatabaseService.getProducts / updateProduct                             *)
(***************************************************************************)
\* getProducts(): MongoDB when connected, the mock data otherwise and when
\* the MongoDB query throws
getProducts(queryError) ==
  IF isMongoConnected /\ ~queryError THEN mongoProducts ELSE mockProducts

\* the mock branch of updateProduct: Object.assign on the product whose id
\* equals `id`, nothing when there is none
updateProductMock(products, id, u) ==
  [i \in DOMAIN products |->
     IF products[i].id = id /\ \A j \in 1..(i - 1) : products[j].id # id
     THEN [products[i] EXCEPT !.stock_quantity = u.stock_quantity,
                              !.status = u.status]
     ELSE products[i]]

\* the MongoDB branch of updateProduct: findByIdAndUpdate
updateProductMongo(products, id, u) ==
  [i \in DOMAIN products |->
     IF products[i].id = id
     THEN [products[i] EXCEPT !.stock_quantity = u.stock_quantity,
                              !.status = u.status]
     ELSE products[i]]

(***************************************************************************)
(* updateInventoryForOrder                                                 *)
(***************************************************************************)
\* the callback of products.find: p.name && p.name.toLowerCase()
\*   .includes(order.product_name.toLowerCase())
productMatches(p, order) ==
  /\ p.name # <<>>
  /\ includes(toLowerCase(p.name), toLowerCase(order.product_name.s))

\* products.find(...) throws a TypeError: order.product_name is undefined
\* and some product has a name
findThrows(products, order) ==
  /\ order.product_name.t # "str"
  /\ \E i \in DOMAIN products : products[i].name # <<>>

\* the index products.find(...) stops at, 0 when it finds nothing
findIndexOf(products, order) ==
  IF \E i \in DOMAIN products : productMatches(products[i], order)
  THEN CHOOSE i \in DOMAIN products :
         /\ productMatches(products[i], order)
         /\ \A j \in 1..(i - 1) : ~productMatches(products[j], order)
  ELSE 0

\* product.stock_quantity || product.quantity || 100: the products of both
\* stores have no `quantity`
currentStockOf(p) == JsOr(p.stock_quantity, JsOr(Undefined, Num(DefaultStock)))

\* Math.max(0, currentStock - order.quantity)
newStockOf(currentStock, quantity) ==
  MathMax(Num(0), JsSub(currentStock, quantity))

\* product.reorder_level || product.min_stock_level || 10
reorderLevelOf(p) == JsOr(p.reorder_level, JsOr(Undefined, Num(DefaultReorder)))

\* newStock === 0 ? "out_of_stock"
\*                : newStock < reorderLevel ? "low_stock" : "in_stock"
stockStatusOf(newStock, reorderLevel) ==
  IF newStock = Num(0) THEN "out_of_stock"
  ELSE IF JsLt(newStock, reorderLevel) THEN "low_stock" ELSE "in_stock"

\* a variant of simulatedStock without the assumed stock of 100
simulatedStockNoBaseline(quantity) == MathMax(Num(0), JsSub(Num(0), quantity))

\* the simulated figure when no product is found: Math.max(0, 100 - quantity)
simulatedStock(quantity) == MathMax(Num(0), JsSub(Num(DefaultStock), quantity))

\* step 2, up to `await getProducts()` and on to `await updateProduct(...)`
InventoryRead(r, queryError) ==
  /\ UNCHANGED methodVars
  /\ running \in {0, r}
  /\ req[r].pc = "inventory_read"
  /\ queryError => isMongoConnected
  /\ LET products == getProducts(queryError)
         order == req[r].order
         i == findIndexOf(products, order)
     IN  IF findThrows(products, order)
         THEN req' = [req EXCEPT ![r] =
                [@ EXCEPT !.pc = "route", !.inventory.state = "failed"]]
         ELSE IF i = 0
         THEN req' = [req EXCEPT ![r] =
                [@ EXCEPT !.pc = "route",
                   !.inventory = [state |-> "ok", found |-> FALSE,
                                  previous_stock |-> Undefined,
                                  new_stock_level |->
                                    simulatedStock(order.quantity)]]]
         ELSE LET currentStock == currentStockOf(products[i])
                  newStock == newStockOf(currentStock, order.quantity)
              IN  req' = [req EXCEPT ![r] =
                    [@ EXCEPT !.pc = "inventory_write",
                       !.inventory = [state |-> "none", found |-> TRUE,
                                      previous_stock |-> currentStock,
                                      new_stock_level |-> newStock],
                       !.update = [id |-> products[i].id,
                                   stock_quantity |-> newStock,
                                   status |-> stockStatusOf(newStock,
                                                reorderLevelOf(products[i]))]]]
         \* the products of MongoDB come after a round trip, updateProduct
         \* follows the mock data's in the same turn
  /\ running' = IF req'[r].pc = "inventory_write"
                    /\ (~isMongoConnected \/ queryError)
                 THEN r ELSE 0
  /\ UNCHANGED <<isMongoConnected, connectionEvents, stores>>

\* step 2, `await updateProduct(product.id, {...})` and the return
InventoryWrite(r, updateError) ==
  /\ UNCHANGED methodVars
  /\ running \in {0, r}
  /\ req[r].pc = "inventory_write"
  /\ updateError => isMongoConnected
  /\ running' = 0
  /\ LET u == req[r].update
     IN  IF isMongoConnected
         THEN IF u.id.k = "oid" /\ MongoProductUpdateValid(u) /\ ~updateError
              THEN /\ mongoProducts' =
                        updateProductMongo(mongoProducts, u.id, u)
                   /\ req' = [req EXCEPT ![r] =
                        [@ EXCEPT !.pc = "route", !.inventory.state = "ok"]]
                   /\ mockProducts' = mockProducts
              ELSE /\ mongoProducts' = mongoProducts
                   /\ req' = [req EXCEPT ![r] =
                        [@ EXCEPT !.pc = "route", !.inventory.state = "failed"]]
                   /\ mockProducts' = mockProducts
         ELSE /\ mockProducts' = updateProductMock(mockProducts, u.id, u)
              /\ req' = [req EXCEPT ![r] =
                   [@ EXCEPT !.pc = "route", !.inventory.state = "ok"]]
              /\ mongoProducts' = mongoProducts
  /\ UNCHANGED <<isMongoConnected, connectionEvents, mockOrders,
                 mockDeliveries, mockWarehouses, mongoOrders, mongoDeliveries,
                 mongoWarehouses>>


(***************************************************************************)
(* GoogleMapsService.calculateRoute                                        *)
(***************************************************************************)
\* `let originCoords` and `let destCoords` are declared inside the try
\* block; the catch block that passes them to calculateRouteDistanceMatrix
\* is outside their scope
CatchBlockSeesCoords == FALSE

\* calculateRouteDistanceMatrix: a route when the provider answers OK, a
\* { success: false } result otherwise
calculateRouteDistanceMatrix(matrixOk) ==
  IF matrixOk THEN "success" ELSE "failure"

\* the try block: both addresses geocode and the Routes API returns a route.
\* An absent destination is no string, is not geocoded and has no `lat`; the
\* provider finds nothing for an empty one.
primaryRoute(destination, originOk, destOk, routesOk) ==
  originOk /\ destination # "" /\ destOk /\ routesOk

\* calculateRoute: "success", "failure" ({ success: false }) or "throws"
calculateRoute(destination, originOk, destOk, routesOk, matrixOk) ==
  IF primaryRoute(destination, originOk, destOk, routesOk) THEN "success"
  ELSE IF CatchBlockSeesCoords THEN calculateRouteDistanceMatrix(matrixOk)
  ELSE "throws"

(***************************************************************************)
(* createDeliveryForOrder                                                  *)
(***************************************************************************)
\* order.quantity > 3 ? 'high' : 'normal'
priorityOf(quantity) ==
  IF JsGt(quantity, Num(HighPriorityAbove)) THEN "high" ELSE "normal"

\* deliveryData, as far as the Delivery model keeps it: the route_info
\* object is no field of a Delivery
deliveryData(order, routeInfo) ==
  [order_id |-> order.order_id,
   status |-> "automatically_assigned_with_route",
   priority |-> priorityOf(order.quantity),
   estimated_delivery_time |->
     IF routeInfo = "success" THEN "estimated_arrival" ELSE "estimate"]

\* a variant of Route in which the exception of calculateRoute is not caught
\* by createDeliveryForOrder and ends the request in the catch of the route
RouteAborts(r, originOk, destOk, routesOk, matrixOk) ==
  /\ UNCHANGED methodVars
  /\ running \in {0, r}
  /\ req[r].pc = "route"
  /\ LET routeInfo == calculateRoute(req[r].order.delivery_address,
                                     originOk, destOk, routesOk, matrixOk)
     IN  IF routeInfo = "throws"
         THEN req' = [req EXCEPT ![r] =
                [@ EXCEPT !.pc = "done", !.route = routeInfo, !.code = 500]]
         ELSE req' = [req EXCEPT ![r] =
                [@ EXCEPT !.pc = "delivery_write", !.route = routeInfo]]
  /\ running' = 0
  /\ UNCHANGED <<isMongoConnected, connectionEvents, stores>>

\* step 3, `await calculateRoute(...)` and `await geocodeAddress(...)`
Route(r, originOk, destOk, routesOk, matrixOk) ==
  /\ UNCHANGED methodVars
  /\ running \in {0, r}
  /\ req[r].pc = "route"
  /\ LET routeInfo == calculateRoute(req[r].order.delivery_address,
                                     originOk, destOk, routesOk, matrixOk)
         down == ~originOk /\ ~destOk /\ ~routesOk /\ ~matrixOk
     IN  IF routeInfo = "throws"
         THEN req' = [req EXCEPT ![r] =
                [@ EXCEPT !.pc = "warehouse", !.route = routeInfo,
                   !.provider_down = down, !.delivery = "failed"]]
         ELSE req' = [req EXCEPT ![r] =
                [@ EXCEPT !.pc = "delivery_write", !.route = routeInfo,
                   !.provider_down = down]]
         \* the catch of createDeliveryForOrder returns in the same turn;
         \* `await geocodeAddress(...)` is a round trip
  /\ running' = IF req'[r].pc = "warehouse" THEN r ELSE 0
  /\ UNCHANGED <<isMongoConnected, connectionEvents, stores>>

\* a variant of DeliveryWrite that takes the order back when the delivery
\* cannot be stored
DeliveryWriteRollback(r) ==
  /\ UNCHANGED methodVars
  /\ running \in {0, r}
  /\ req[r].pc = "delivery_write"
  /\ running' = IF isMongoConnected THEN 0 ELSE r
  /\ LET d == deliveryData(req[r].order, req[r].route)
     IN  IF isMongoConnected /\ ~MongoDeliveryValid(d)
         THEN /\ mongoOrders' =
                   SelectSeq(mongoOrders, LAMBDA o : o.order_id # r)
              /\ req' = [req EXCEPT ![r] =
                   [@ EXCEPT !.pc = "warehouse", !.delivery = "failed"]]
              /\ UNCHANGED <<mockDeliveries, mongoDeliveries>>
         ELSE /\ mockDeliveries' = Append(mockDeliveries, d)
              /\ req' = [req EXCEPT ![r] =
                   [@ EXCEPT !.pc = "warehouse", !.delivery = "ok"]]
              /\ UNCHANGED <<mongoOrders, mongoDeliveries>>
  /\ UNCHANGED <<isMongoConnected, connectionEvents, mockOrders, mockProducts,
                 mockWarehouses, mongoProducts, mongoWarehouses>>

\* step 3, `await createDelivery(deliveryData)` and the return
DeliveryWrite(r) ==
  /\ UNCHANGED methodVars
  /\ running \in {0, r}
  /\ req[r].pc = "delivery_write"
  /\ running' = IF isMongoConnected THEN 0 ELSE r
  /\ LET d == deliveryData(req[r].order, req[r].route)
     IN  IF isMongoConnected
         THEN IF MongoDeliveryValid(d)
              THEN /\ mongoDeliveries' = Append(mongoDeliveries, d)
                   /\ req' = [req EXCEPT ![r] =
                        [@ EXCEPT !.pc = "warehouse", !.delivery = "ok"]]
                   /\ mockDeliveries' = mockDeliveries
              ELSE /\ mongoDeliveries' = mongoDeliveries
                   /\ req' = [req EXCEPT ![r] =
                        [@ EXCEPT !.pc = "warehouse", !.delivery = "failed"]]
                   /\ mockDeliveries' = mockDeliveries
         ELSE /\ mockDeliveries' = Append(mockDeliveries, d)
              /\ req' = [req EXCEPT ![r] =
                   [@ EXCEPT !.pc = "warehouse", !.delivery = "ok"]]
              /\ mongoDeliveries' = mongoDeliveries
  /\ UNCHANGED <<isMongoConnected, connectionEvents, mockOrders, mockProducts,
                 mockWarehouses, mongoOrders, mongoProducts, mongoWarehouses>>

(***************************************************************************)
(* updateWarehouseForOrder and the response                                *)
(***************************************************************************)
\* warehouseData, as far as the Warehouse model keeps it: the generated
\* warehouse_id (n for the n-th request) and the status; it has no name, no
\* location and no capacity, and order_id is no field of a Warehouse
warehouseData(r) ==
  [warehouse_id |-> r, name |-> "",
   status |-> "AUTOMATICALLY_DISPATCHED_FROM_WAREHOUSE",
   capacity |-> Undefined, current_utilization |-> Num(0)]

\* a variant of Warehouse that does not wait for the delivery step
WarehouseEarly(r) ==
  /\ UNCHANGED methodVars
  /\ running \in {0, r}
  /\ req[r].pc \in {"route", "warehouse"}
  /\ running' = 0
  /\ IF isMongoConnected
     THEN /\ req' = [req EXCEPT ![r] =
               [@ EXCEPT !.pc = "done", !.warehouse = "failed", !.code = 200]]
          /\ mockWarehouses' = mockWarehouses
     ELSE /\ req' = [req EXCEPT ![r] =
               [@ EXCEPT !.pc = "done", !.warehouse = "ok", !.code = 200]]
          /\ mockWarehouses' = Append(mockWarehouses, warehouseData(r))
  /\ UNCHANGED <<isMongoConnected, connectionEvents, mockOrders, mockProducts,
                 mockDeliveries, mongoOrders, mongoProducts, mongoDeliveries,
                 mongoWarehouses>>

\* step 4, `await createWarehouse(warehouseData)`, and res.json(...)
Warehouse(r) ==
  /\ UNCHANGED methodVars
  /\ running \in {0, r}
  /\ req[r].pc = "warehouse"
  /\ running' = 0
  /\ LET w == warehouseData(r)
     IN  IF isMongoConnected
         THEN IF MongoWarehouseValid(w)
              THEN /\ mongoWarehouses' = Append(mongoWarehouses, w)
                   /\ req' = [req EXCEPT ![r] =
                        [@ EXCEPT !.pc = "done", !.warehouse = "ok",
                           !.code = 200]]
                   /\ mockWarehouses' = mockWarehouses
              ELSE /\ mongoWarehouses' = mongoWarehouses
                   /\ req' = [req EXCEPT ![r] =
                        [@ EXCEPT !.pc = "done", !.warehouse = "failed",
                           !.code = 200]]
                   /\ mockWarehouses' = mockWarehouses
         ELSE /\ mockWarehouses' = Append(mockWarehouses, w)
              /\ req' = [req EXCEPT ![r] =
                   [@ EXCEPT !.pc = "done", !.warehouse = "ok", !.code = 200]]
              /\ mongoWarehouses' = mongoWarehouses
  /\ UNCHANGED <<isMongoConnected, connectionEvents, mockOrders, mockProducts,
                 mockDeliveries, mongoOrders, mongoProducts, mongoDeliveries>>

(***************************************************************************)
(* The mongoose connection events DatabaseService.checkConnection listens  *)
(* to.                                                                     *)
(***************************************************************************)
Connected ==
  /\ UNCHANGED methodVars
  /\ ~isMongoConnected
  /\ running = 0
  /\ connectionEvents < MaxConnectionEvents
  /\ isMongoConnected' = TRUE
  /\ connectionEvents' = connectionEvents + 1
  /\ UNCHANGED <<stores, req, running>>

Disconnected ==
  /\ UNCHANGED methodVars
  /\ isMongoConnected
  /\ running = 0
  /\ connectionEvents < MaxConnectionEvents
  /\ isMongoConnected' = FALSE
  /\ connectionEvents' = connectionEvents + 1
  /\ UNCHANGED <<stores, req, running>>


(***************************************************************************)
(* DatabaseService.updateOrder                                             *)
(***************************************************************************)
\* the ids a client puts in the URL: the first order's id in either store
\* (the id of no order as long as that store has none)
ClientIds == {IntId(1), ObjectId(1)}

\* the status values a client sends: valid ones, one outside the enum, none
StatusInputs == {"pending", "shipped", "cancelled", "bogus", NoStatus}

\* orders.findIndex(o => o.id == id) !== -1
hasOrder(orders, id) == \E i \in DOMAIN orders : orders[i].id = id

\* the order findIndex / findById stops at
orderOf(orders, id) ==
  orders[CHOOSE i \in DOMAIN orders :
           orders[i].id = id /\ \A j \in 1..(i - 1) : orders[j].id # id]

\* the mock branch: Object.assign(order, { status }) copies the property
\* whatever its value, undefined included
updateOrderMock(orders, id, status) ==
  [i \in DOMAIN orders |->
     IF orders[i].id = id /\ \A j \in 1..(i - 1) : orders[j].id # id
     THEN [orders[i] EXCEPT !.status = status]
     ELSE orders[i]]

\* the MongoDB branch throws: the id is no ObjectId (CastError) or the
\* status is outside the enum (runValidators)
updateOrderMongoThrows(id, status) ==
  \/ id.k # "oid"
  \/ status # NoStatus /\ status \notin OrderStatuses

\* the MongoDB branch: findByIdAndUpdate(id, { status }); an undefined
\* status is no update at all
updateOrderMongo(orders, id, status) ==
  [i \in DOMAIN orders |->
     IF orders[i].id = id /\ status # NoStatus
     THEN [orders[i] EXCEPT !.status = status]
     ELSE orders[i]]

\* the orders of the store in use
ordersInUse == IF isMongoConnected THEN mongoOrders ELSE mockOrders

\* the status code of a handler around `await updateOrder(id, { status })`
updateOrderCode(id, status) ==
  IF isMongoConnected /\ updateOrderMongoThrows(id, status) THEN 500
  ELSE IF hasOrder(ordersInUse, id) THEN 200 ELSE 404

\* the stores after updateOrder(id, { status })
updateOrder(id, status) ==
  /\ IF isMongoConnected
     THEN /\ mongoOrders' =
               IF updateOrderMongoThrows(id, status) THEN mongoOrders
               ELSE updateOrderMongo(mongoOrders, id, status)
          /\ mockOrders' = mockOrders
     ELSE /\ mockOrders' = updateOrderMock(mockOrders, id, status)
          /\ mongoOrders' = mongoOrders

(***************************************************************************)
(* PATCH /api/integration/order/:id/status                                 *)
(***************************************************************************)
\* updateDeliveryStatus(orderId, status): writes a log line
updateDeliveryStatus(deliveries, orderId, status) == deliveries

\* updateWarehouseStatus(orderId, status): writes a log line
updateWarehouseStatus(warehouses, orderId, status) == warehouses

\* restoreInventoryForCancelledOrder(order): writes a log line
restoreInventoryForCancelledOrder(products, order) == products

\* the delivery status the handler asks for
deliveryStatusFor(status) ==
  IF status = "shipped" THEN "in-transit" ELSE status

\* the whole handler: the status goes to updateOrder as it came
IntegrationUpdateStatus(id, status) ==
  /\ UNCHANGED methodVars
  /\ running = 0
  /\ updateOrder(id, status)
  /\ IF updateOrderCode(id, status) = 200
        /\ status \in {"shipped", "delivered", "cancelled"}
     THEN LET order == orderOf(ordersInUse, id)
          IN  /\ mockProducts' =
                   IF status = "cancelled"
                   THEN restoreInventoryForCancelledOrder(mockProducts, order)
                   ELSE mockProducts
              /\ mockDeliveries' = updateDeliveryStatus(mockDeliveries,
                                     order.order_id, deliveryStatusFor(status))
              /\ mockWarehouses' = updateWarehouseStatus(mockWarehouses,
                                     order.order_id, status)
     ELSE UNCHANGED <<mockProducts, mockDeliveries, mockWarehouses>>
  /\ UNCHANGED <<isMongoConnected, connectionEvents, mongoProducts,
                 mongoDeliveries, mongoWarehouses, req, running>>

(***************************************************************************)
(* PATCH /api/orders/:id/status                                            *)
(***************************************************************************)
\* Order.getValidStatuses()
getValidStatuses == OrderStatuses

\* the whole handler: 400 unless the status is one of the valid statuses
OrdersUpdateStatus(id, status) ==
  /\ UNCHANGED methodVars
  /\ running = 0
  /\ IF status = NoStatus \/ status \notin getValidStatuses
     THEN UNCHANGED <<mockOrders, mongoOrders>>
     ELSE updateOrder(id, status)
  /\ UNCHANGED <<isMongoConnected, connectionEvents, mockProducts,
                 mockDeliveries, mockWarehouses, mongoProducts, mongoDeliveries,
                 mongoWarehouses, req, running>>

(***************************************************************************)
(* PATCH /api/inventory/:id/stock                                          *)
(***************************************************************************)
\* routes/inventory.js requires databaseService, Product and Validator; the
\* name mockDataService its handlers use is bound nowhere in the module
InventoryBindsMockData == FALSE

\* Validator.isNonNegativeNumber
isNonNegativeNumber(value) == value.t = "num" /\ value.v >= 0

validOperations == {"add", "subtract", "set"}

\* Product.updateStock(quantity, operation)
updateStock(stock, quantity, operation) ==
  IF operation = "add" THEN Num(stock.v + quantity.v)
  ELSE IF operation = "subtract" THEN MathMax(Num(0), JsSub(stock, quantity))
  ELSE IF operation = "set" THEN MathMax(Num(0), quantity)
  ELSE stock

\* the whole handler
InventoryUpdateStock(id, quantity, operation) ==
  /\ UNCHANGED methodVars
  /\ running = 0
  /\ IF ~isNonNegativeNumber(quantity) \/ operation \notin validOperations
     THEN mockProducts' = mockProducts
     ELSE IF ~InventoryBindsMockData
     THEN mockProducts' = mockProducts
     ELSE IF \A i \in DOMAIN mockProducts : mockProducts[i].id # id
     THEN mockProducts' = mockProducts
     ELSE mockProducts' =
               [i \in DOMAIN mockProducts |->
                  IF mockProducts[i].id = id
                     /\ \A j \in 1..(i - 1) : mockProducts[j].id # id
                  THEN [mockProducts[i] EXCEPT !.stock_quantity =
                          updateStock(@, quantity, operation)]
                  ELSE mockProducts[i]]
  /\ UNCHANGED <<isMongoConnected, connectionEvents, mockOrders,
                 mockDeliveries, mockWarehouses, mongoOrders, mongoProducts,
                 mongoDeliveries, mongoWarehouses, req, running>>

(***************************************************************************)
(* Status methods of the Delivery model.                                   *)
(***************************************************************************)
\* Delivery.getValidStatuses()
validStatuses == DeliveryStatuses

\* status values a caller hands to updateStatus
DeliveryStatusInputs == validStatuses \cup {"bogus"}

\* a variant of stampOf that takes the time of every update
stampOfAlways(status, wanted, stamp) ==
  IF status = wanted THEN clock ELSE stamp

\* the timestamp a status sets: `!this.pickup_time` / `!this.actual_delivery_time`
\* holds for null only, a Date is truthy
stampOf(status, wanted, stamp) ==
  IF status = wanted /\ stamp = NoTime THEN clock ELSE stamp

\* Delivery.updateStatus(newStatus) on a Delivery object
DeliveryUpdateStatus(newStatus) ==
  /\ delivery.kind = "object"
  /\ IF newStatus \in validStatuses
     THEN delivery' =
            [delivery EXCEPT
               !.status = newStatus,
               !.updated_at = clock,
               !.pickup_time = stampOf(newStatus, "picked_up", @),
               !.actual_delivery_time = stampOf(newStatus, "delivered", @)]
     ELSE delivery' = delivery
  /\ UNCHANGED <<clock, geocode, bulk, warehouse, maps>>
  /\ UNCHANGED <<stores, isMongoConnected, req, running, connectionEvents>>

\* document.updateStatus(newStatus) followed by document.save() on a
\* MongoDelivery document: deliverySchema.methods.updateStatus assigns the
\* status, the pre('save') hook sets the timestamps when the status path is
\* modified (an assignment of the stored value modifies nothing, and a save
\* without modification leaves updatedAt alone)
MongoDeliverySave(newStatus) ==
  /\ delivery.kind = "document"
  /\ IF newStatus \in validStatuses /\ newStatus # delivery.status
     THEN delivery' =
            [delivery EXCEPT
               !.status = newStatus,
               !.updated_at = clock,
               !.pickup_time = stampOf(newStatus, "picked_up", @),
               !.actual_delivery_time = stampOf(newStatus, "delivered", @)]
     ELSE delivery' = delivery
  /\ UNCHANGED <<clock, geocode, bulk, warehouse, maps>>
  /\ UNCHANGED <<stores, isMongoConnected, req, running, connectionEvents>>

\* time passes between two calls
Tick ==
  /\ clock < MaxClock
  /\ clock' = clock + 1
  /\ UNCHANGED <<delivery, geocode, bulk, warehouse, maps>>
  /\ UNCHANGED <<stores, isMongoConnected, req, running, connectionEvents>>

\* a delivery as generateDeliveries makes it (any status, a pickup time in
\* the past or none) or as transferMockDataToMongo copies it
InitDelivery ==
  /\ InitStores
  /\ isMongoConnected = FALSE
  /\ \E kind \in {"object", "document"}, status \in validStatuses,
        pickup_time \in {NoTime, 1} :
       delivery = NewDelivery(kind, status, pickup_time)
  /\ clock = 1
  /\ maps = NoCall
  /\ warehouse = NoZones
  /\ bulk = NoBulk
  /\ geocode = NoGeocode

NextDelivery ==
  \/ \E newStatus \in DeliveryStatusInputs : DeliveryUpdateStatus(newStatus)
  \/ \E newStatus \in DeliveryStatusInputs : MongoDeliverySave(newStatus)
  \/ Tick

SpecDelivery == InitDelivery /\ [][NextDelivery]_vars


(***************************************************************************)
(* GoogleMapsService.optimizeDeliveryRoute                                 *)
(***************************************************************************)
\* what the provider reports for one leg: distance.value (meters) and
\* duration.value (seconds)
LegValues == [distance : 1..MaxLeg, duration : 1..MaxLeg]

\* legs.reduce((total, leg) => total + leg.distance.value, 0)
RECURSIVE totalOf(_, _)
totalOf(legs, field) ==
  IF legs = <<>> THEN 0
  ELSE legs[1][field] + totalOf(Tail(legs), field)

\* { success: false, error: error.message }
failureResult ==
  [success |-> FALSE, shape |-> "none", distance |-> 0, duration |-> 0]

\* the answers of the provider to the calls of one optimizeDeliveryRoute:
\* whether the geocoding of the origin and of the destination, the Routes
\* API, the Distance Matrix API and the Directions API answer with a result
ProviderAnswers ==
  [originOk : BOOLEAN, destOk : BOOLEAN, routesOk : BOOLEAN,
   matrixOk : BOOLEAN, directionsOk : BOOLEAN]

\* provider calls (axios) of one calculateRoute(origin, destination) for an
\* address destination: a geocoding call for an address origin, one for the
\* destination, the Routes API call, and the Distance Matrix call of the
\* catch block where it can be made
routeCalls(originIsString, answers) ==
  LET geocodedOrigin == ~originIsString \/ answers.originOk
      primary == geocodedOrigin /\ answers.destOk /\ answers.routesOk
  IN  (IF originIsString THEN 1 ELSE 0)
        + (IF geocodedOrigin THEN 1 ELSE 0)
        + (IF geocodedOrigin /\ answers.destOk THEN 1 ELSE 0)
        + (IF ~primary /\ CatchBlockSeesCoords THEN 1 ELSE 0)

\* the result of optimizeDeliveryRoute(origin, destinations) for n address
\* destinations: the provider answers `legs`; an exception, the one of
\* calculateRoute included, ends in the catch block
optimizeResult(n, originIsString, answers, legs) ==
  IF n = 0 THEN failureResult
  ELSE IF n = 1
  THEN IF calculateRoute("1 Main St", ~originIsString \/ answers.originOk,
                         answers.destOk, answers.routesOk, answers.matrixOk)
            = "success"
       THEN [success |-> TRUE, shape |-> "route",
             distance |-> legs[1].distance, duration |-> legs[1].duration]
       ELSE failureResult
  ELSE IF answers.directionsOk
       THEN [success |-> TRUE, shape |-> "optimized_route",
             distance |-> totalOf(legs, "distance"),
             duration |-> totalOf(legs, "duration")]
       ELSE failureResult

\* a variant of optimizeCalls that asks the Directions API before it looks
\* at the list
optimizeCallsUnchecked(n, originIsString, answers) ==
  IF n = 1 THEN routeCalls(originIsString, answers) ELSE 1

\* provider calls of optimizeDeliveryRoute: none for an empty list, those of
\* calculateRoute for one destination, one Directions call for more
optimizeCalls(n, originIsString, answers) ==
  IF n = 0 THEN 0
  ELSE IF n = 1 THEN routeCalls(originIsString, answers)
  ELSE 1

\* optimizedRoute.optimized_route.total_distance / .total_duration, as the
\* callers of optimizeDeliveryRoute read the result: -1 stands for the
\* TypeError of a result without optimized_route
totalDistanceOf(result) ==
  IF result.shape = "optimized_route" THEN result.distance ELSE -1
totalDurationOf(result) ==
  IF result.shape = "optimized_route" THEN result.duration ELSE -1

\* one call of optimizeDeliveryRoute(origin, destinations)
OptimizeDeliveryRoute(n, originIsString, answers, legs) ==
  /\ ~maps.called
  /\ maps' =
       [called |-> TRUE, destinations |-> n,
        origin_is_string |-> originIsString, legs |-> legs,
        calls |-> optimizeCalls(n, originIsString, answers),
        result |-> optimizeResult(n, originIsString, answers, legs)]
  /\ UNCHANGED <<delivery, clock, geocode, bulk, warehouse>>
  /\ UNCHANGED <<stores, isMongoConnected, req, running, connectionEvents>>

(***************************************************************************)
(* GoogleMapsService.geocodeAddress, calculateRoute for two addresses and  *)
(* GET /api/delivery/geocode                                               *)
(***************************************************************************)
\* what the Geocoding API does with a request: a result, status ZERO_RESULTS
\* or an error (a rejected request, no connection)
GeocodeAnswers == {"ok", "zero_results", "error"}

\* an empty address has no result
answersFor(address) ==
  IF address = "" THEN GeocodeAnswers \ {"ok"} ELSE GeocodeAnswers

\* geocodeAddress(address): the axios.get is its first statement
geocodeAddressCalls(address) == 1

\* geocodeAddress(address): { success: true, coordinates },
\* { success: false, error: 'Address not found' } or
\* { success: false, error: error.message }
geocodeAddressOutcome(answer) ==
  IF answer = "ok" THEN "found"
  ELSE IF answer = "zero_results" THEN "address_not_found"
  ELSE "error_message"

GeocodeAddress(address, answer) ==
  /\ ~geocode.called
  /\ geocode' = [called |-> TRUE, op |-> "geocodeAddress",
                 empty |-> (address = ""),
                 calls |-> geocodeAddressCalls(address),
                 outcome |-> geocodeAddressOutcome(answer)]
  /\ UNCHANGED <<delivery, clock, bulk, warehouse, maps>>
  /\ UNCHANGED <<stores, isMongoConnected, req, running, connectionEvents>>

\* GET /api/delivery/geocode?address=..., the whole handler
GeocodeRoute(address, answer) ==
  /\ ~geocode.called
  /\ geocode' = [called |-> TRUE, op |-> "GET /geocode",
                 empty |-> (address = ""),
                 calls |-> IF address = "" THEN 0
                           ELSE geocodeAddressCalls(address),
                 outcome |-> IF address = "" THEN "address_required_400"
                             ELSE IF answer = "ok" THEN "found_200"
                             ELSE "address_not_found_404"]
  /\ UNCHANGED <<delivery, clock, bulk, warehouse, maps>>
  /\ UNCHANGED <<stores, isMongoConnected, req, running, connectionEvents>>

\* calculateRoute(origin, destination) for two addresses
CalculateRoute(origin, destination, answers) ==
  /\ ~geocode.called
  /\ LET found == [answers EXCEPT !.originOk = @ /\ origin # "",
                                  !.destOk = @ /\ destination # ""]
     IN  geocode' = [called |-> TRUE, op |-> "calculateRoute",
                     empty |-> (origin = "" \/ destination = ""),
                     calls |-> routeCalls(TRUE, found),
                     outcome |-> calculateRoute(destination, found.originOk,
                                                found.destOk, found.routesOk,
                                                found.matrixOk)]
  /\ UNCHANGED <<delivery, clock, bulk, warehouse, maps>>
  /\ UNCHANGED <<stores, isMongoConnected, req, running, connectionEvents>>

(***************************************************************************)
(* POST /api/delivery/bulk-optimize                                        *)
(***************************************************************************)
\* route.waypoint_order of the Directions API: a visiting order of the
\* k intermediate waypoints (counted from 1 here)
WaypointOrders(k) ==
  {order \in [1..k -> 1..k] :
     \A i, j \in 1..k : order[i] = order[j] => i = j}

\* the handler reads the order and the totals only; the legs do not decide
\* its status code
someLegs(n) == [i \in 1..n |-> [distance |-> 1, duration |-> 1]]

\* the whole handler for a body with n deliveries (delivery i is the i-th of
\* req.body.deliveries): 400 for no delivery, 500 when optimizeDeliveryRoute
\* fails or when the result has no optimized_route to read waypoint_order
\* from, else `waypoint_order.map(index => deliveries[index])`
BulkOptimize(n, originIsString, answers, waypointOrder) ==
  /\ LET result == optimizeResult(n, originIsString, answers, someLegs(n))
         code == IF n = 0 THEN 400
                 ELSE IF ~result.success THEN 500
                 ELSE IF result.shape # "optimized_route" THEN 500
                 ELSE 200
     IN  bulk' = [called |-> TRUE, deliveries |-> n,
                  provider_ok |-> (answers.originOk /\ answers.destOk
                                   /\ answers.routesOk /\ answers.matrixOk
                                   /\ answers.directionsOk),
                  code |-> code,
                  optimized_deliveries |->
                    IF code = 200 THEN waypointOrder ELSE <<>>]
  /\ UNCHANGED <<delivery, clock, geocode, warehouse, maps>>
  /\ UNCHANGED <<stores, isMongoConnected, req, running, connectionEvents>>

InitMaps ==
  /\ InitStores
  /\ isMongoConnected = FALSE
  /\ delivery = NewDelivery("object", "pending", NoTime)
  /\ clock = 1
  /\ maps = NoCall
  /\ warehouse = NoZones
  /\ bulk = NoBulk
  /\ geocode = NoGeocode

\* the addresses a caller passes
AddressInputs == {"", "1 Main St"}

\* one call in a behaviour: the service keeps no state between calls
noCallYet == ~maps.called /\ ~geocode.called /\ ~bulk.called

NextMaps ==
  \/ /\ noCallYet
     /\ \E n \in 0..MaxDestinations, originIsString \in BOOLEAN,
           answers \in ProviderAnswers :
          \E legs \in [1..n -> LegValues] :
            OptimizeDeliveryRoute(n, originIsString, answers, legs)
  \/ \E address \in AddressInputs :
       \E answer \in answersFor(address) :
         noCallYet /\ GeocodeAddress(address, answer)
  \/ \E address \in AddressInputs :
       \E answer \in answersFor(address) :
         noCallYet /\ GeocodeRoute(address, answer)
  \/ \E origin, destination \in AddressInputs, answers \in ProviderAnswers :
       noCallYet /\ CalculateRoute(origin, destination, answers)
  \/ \E n \in 0..MaxDestinations, originIsString \in BOOLEAN,
        answers \in ProviderAnswers :
       \E waypointOrder \in WaypointOrders(IF n = 0 THEN 0 ELSE n - 1) :
         noCallYet /\ BulkOptimize(n, originIsString, answers, waypointOrder)

SpecMaps == InitMaps /\ [][NextMaps]_vars


(***************************************************************************)
(* DatabaseService.getOrders and getOrderById                              *)
(***************************************************************************)
\* getOrders(): the MongoOrder collection when the service is connected and
\* the query succeeds, the orders of mockDataService otherwise
getOrders(queryError) ==
  IF isMongoConnected /\ ~queryError THEN mongoOrders ELSE mockOrders

\* getOrderById(id) for the id createOrder returned to request r: the order,
\* or <<>> for null
getOrderById(r, queryError) ==
  SelectSeq(getOrders(queryError), LAMBDA o : o.id = req[r].order.id)

\* getWarehouses(): the MongoWarehouse collection when the service is
\* connected and the query succeeds, the warehouses of mockDataService
\* otherwise
getWarehouses(connected, warehousesOfMongo, warehousesOfMock, queryError) ==
  IF connected /\ ~queryError THEN warehousesOfMongo ELSE warehousesOfMock

(***************************************************************************)
(* routes/warehouse.js: POST /, PUT /:id and PATCH /:id/utilization        *)
(***************************************************************************)
\* routes/warehouse.js requires databaseService, Warehouse and Validator; the
\* name mockDataService its handlers use is bound nowhere in the module
WarehouseBindsMockData == FALSE

\* Validator.isPositiveNumber
isPositiveNumber(value) == value.t = "num" /\ value.v > 0

\* Warehouse.updateUtilization(newUtilization)
updateUtilization(w, newUtilization) ==
  IF JsGe(newUtilization, Num(0)) /\ JsLe(newUtilization, w.capacity)
  THEN [w EXCEPT !.current_utilization = newUtilization]
  ELSE w

\* the capacities and utilizations a client sends
WarehouseNumbers == {Num(0), Num(1), Num(3), Undefined}

\* POST /api/warehouse, the whole handler
WarehouseCreate(capacity, utilization) ==
  /\ UNCHANGED methodVars
  /\ running = 0
  /\ IF capacity = Undefined \/ ~isPositiveNumber(capacity)
     THEN mockWarehouses' = mockWarehouses
     ELSE IF ~WarehouseBindsMockData
     THEN mockWarehouses' = mockWarehouses
     ELSE mockWarehouses' = Append(mockWarehouses,
            [warehouse_id |-> Len(mockWarehouses) + NumReq, name |-> "New",
             status |-> "active", capacity |-> capacity,
             current_utilization |-> JsOr(utilization, Num(0))])
  /\ UNCHANGED <<isMongoConnected, connectionEvents, mockOrders, mockProducts,
                 mockDeliveries, mongoOrders, mongoProducts, mongoDeliveries,
                 mongoWarehouses, req, running>>

\* PUT /api/warehouse/:id, the whole handler
WarehouseUpdate(id, capacity) ==
  /\ UNCHANGED methodVars
  /\ running = 0
  /\ IF ~WarehouseBindsMockData
     THEN mockWarehouses' = mockWarehouses
     ELSE IF Truthy(capacity) /\ isPositiveNumber(capacity)
     THEN mockWarehouses' =
            [i \in DOMAIN mockWarehouses |->
               IF mockWarehouses[i].warehouse_id = id
                  /\ \A j \in 1..(i - 1) : mockWarehouses[j].warehouse_id # id
               THEN [mockWarehouses[i] EXCEPT !.capacity = capacity]
               ELSE mockWarehouses[i]]
     ELSE mockWarehouses' = mockWarehouses
  /\ UNCHANGED <<isMongoConnected, connectionEvents, mockOrders, mockProducts,
                 mockDeliveries, mongoOrders, mongoProducts, mongoDeliveries,
                 mongoWarehouses, req, running>>

\* PATCH /api/warehouse/:id/utilization, the whole handler
WarehouseUpdateUtilization(id, utilization) ==
  /\ UNCHANGED methodVars
  /\ running = 0
  /\ IF utilization = Undefined \/ ~isNonNegativeNumber(utilization)
     THEN mockWarehouses' = mockWarehouses
     ELSE IF ~WarehouseBindsMockData
     THEN mockWarehouses' = mockWarehouses
     ELSE mockWarehouses' =
            [i \in DOMAIN mockWarehouses |->
               IF mockWarehouses[i].warehouse_id = id
                  /\ \A j \in 1..(i - 1) : mockWarehouses[j].warehouse_id # id
               THEN updateUtilization(mockWarehouses[i], utilization)
               ELSE mockWarehouses[i]]
  /\ UNCHANGED <<isMongoConnected, connectionEvents, mockOrders, mockProducts,
                 mockDeliveries, mongoOrders, mongoProducts, mongoDeliveries,
                 mongoWarehouses, req, running>>

(***************************************************************************)
(* Warehouse.addZone and Warehouse.removeZone                              *)
(***************************************************************************)
\* zones a warehouse is given at most
MaxZones == 4

\* addZone(zone): `id: this.zones.length + 1`; a zone is its id here
addZone(zones) == Append(zones, Len(zones) + 1)

\* removeZone(zoneId): `this.zones.filter(zone => zone.id !== zoneId)`
removeZone(zones, zoneId) == SelectSeq(zones, LAMBDA id : id # zoneId)

AddZone ==
  /\ Len(warehouse.zones) < MaxZones
  /\ warehouse' = [zones |-> addZone(warehouse.zones), removed |-> 0]
  /\ UNCHANGED <<delivery, clock, geocode, bulk, maps>>
  /\ UNCHANGED <<stores, isMongoConnected, req, running, connectionEvents>>

RemoveZone(zoneId) ==
  /\ warehouse' =
       [zones |-> removeZone(warehouse.zones, zoneId),
        removed |-> Len(warehouse.zones)
                      - Len(removeZone(warehouse.zones, zoneId))]
  /\ UNCHANGED <<delivery, clock, geocode, bulk, maps>>
  /\ UNCHANGED <<stores, isMongoConnected, req, running, connectionEvents>>

InitZones ==
  /\ InitStores
  /\ isMongoConnected = FALSE
  /\ delivery = NewDelivery("object", "pending", NoTime)
  /\ clock = 1
  /\ geocode = NoGeocode
  /\ bulk = NoBulk
  /\ maps = NoCall
  /\ warehouse = NoZones

NextZones ==
  \/ AddZone
  \/ \E zoneId \in 1..(MaxZones + 1) : RemoveZone(zoneId)

SpecZones == InitZones /\ [][NextZones]_vars

(***************************************************************************)
(* Specifications.                                                         *)
(***************************************************************************)
\* requests to POST /api/integration/order in flight
inFlight == Cardinality({r \in ReqIds : req[r].pc \notin {"idle", "done"}})

\* steps 2 to 4 of POST /api/integration/order
PlaceOrderStep ==
  \/ \E r \in ReqIds, queryError \in BOOLEAN : InventoryRead(r, queryError)
  \/ \E r \in ReqIds, updateError \in BOOLEAN : InventoryWrite(r, updateError)
  \/ \E r \in ReqIds, originOk, destOk, routesOk, matrixOk \in BOOLEAN :
       Route(r, originOk, destOk, routesOk, matrixOk)
  \/ \E r \in ReqIds : DeliveryWrite(r)
  \/ \E r \in ReqIds : Warehouse(r)

\* the single-step requests
OtherRequest ==
  \/ \E id \in ClientIds, status \in StatusInputs :
       IntegrationUpdateStatus(id, status)
  \/ \E id \in ClientIds, status \in StatusInputs :
       OrdersUpdateStatus(id, status)
  \/ \E quantity \in {Num(1), Undefined}, operation \in {"subtract", "halve"} :
       InventoryUpdateStock(IntId(1), quantity, operation)
  \/ \E capacity, utilization \in WarehouseNumbers :
       WarehouseCreate(capacity, utilization)
  \/ \E capacity \in WarehouseNumbers : WarehouseUpdate(0, capacity)
  \/ \E utilization \in WarehouseNumbers :
       WarehouseUpdateUtilization(0, utilization)

\* a client that waits for the response before it places its next order
Next ==
  \/ \E r \in ReqIds, in \in OrderInputs, saveError \in BOOLEAN :
       inFlight < MaxInFlight /\ CreateOrder(r, in, saveError)
  \/ PlaceOrderStep
  \/ OtherRequest
  \/ Connected
  \/ Disconnected

Spec == Init /\ [][Next]_vars

\* clients that place their orders at the same time
NextConcurrent ==
  \/ \E r \in ReqIds, in \in ConcurrentInputs :
       CreateOrder(r, in, FALSE)
  \/ PlaceOrderStep
  \/ Connected
  \/ Disconnected

SpecConcurrent == Init /\ [][NextConcurrent]_vars

\* the steps of a placement that wait for the store only: the store answers
\* every query, and the event loop then runs the continuation
StoreStep ==
  \/ \E r \in ReqIds, queryError \in BOOLEAN : InventoryRead(r, queryError)
  \/ \E r \in ReqIds, updateError \in BOOLEAN : InventoryWrite(r, updateError)
  \/ \E r \in ReqIds : DeliveryWrite(r)
  \/ \E r \in ReqIds : Warehouse(r)

\* Route(r, ...) is the answer of the routing provider to the axios calls of
\* calculateRoute and geocodeAddress: the calls set no timeout, so nothing
\* but the provider's answer resumes the request, and the provider is free
\* never to give it
SpecTermination == Init /\ [][Next]_vars /\ WF_vars(StoreStep)


(***************************************************************************)
(* Properties.                                                             *)
(***************************************************************************)
\* the records of both stores that carry the order_id n
ordersOf(n) ==
  {i \in DOMAIN mockOrders : mockOrders[i].order_id = n}
    \cup {i \in DOMAIN mongoOrders : mongoOrders[i].order_id = n}
deliveriesOf(n) ==
  {i \in DOMAIN mockDeliveries : mockDeliveries[i].order_id = n}
    \cup {i \in DOMAIN mongoDeliveries : mongoDeliveries[i].order_id = n}
warehousesOf(n) ==
  {i \in DOMAIN mockWarehouses : mockWarehouses[i].warehouse_id = n}
    \cup {i \in DOMAIN mongoWarehouses : mongoWarehouses[i].warehouse_id = n}

\* C1: a request to POST /api/integration/order whose body lacks a
\* required field, or whose quantity or price is not greater than 0, is
\* answered with an error, and no Order, Delivery or Warehouse record of
\* the request exists and the request writes no stock.
C1_DefectiveInputCreatesNothing ==
  \A r \in ReqIds :
    (req[r].pc # "idle" /\ req[r].input \in DefectiveInputs) =>
      /\ req[r].pc = "done"
      /\ req[r].code >= 400
      /\ ordersOf(r) = {}
      /\ deliveriesOf(r) = {}
      /\ warehousesOf(r) = {}
      /\ req[r].update = NoUpdate

\* C2: whatever fields the body carries, the Order an accepted request
\* returns has status pending, and the response of a request that stored
\* an Order reports a success flag for each of the inventory, delivery and
\* warehouse steps.
C2_AcceptedOrderIsPending ==
  \A r \in ReqIds :
    /\ req[r].order # NoOrder => req[r].order.status = "pending"
    /\ (req[r].pc = "done" /\ req[r].order # NoOrder) =>
         /\ req[r].code = 200
         /\ req[r].inventory.state \in {"ok", "failed"}
         /\ req[r].delivery \in {"ok", "failed"}
         /\ req[r].warehouse \in {"ok", "failed"}

\* C3: when the inventory step of a request finds a product with stored
\* stock s >= 0 and the order quantity is q >= 1, the step that succeeds
\* stores and reports the stock max(0, s - q).
C3_StoredStockIsClampedDifference ==
  [][\A r \in ReqIds :
       LET u == req[r].update
           q == req[r].order.quantity
       IN  \A i \in DOMAIN mockProducts :
             LET s == mockProducts[i].stock_quantity
             IN  ( /\ InventoryWrite(r, FALSE)
                   /\ ~isMongoConnected
                   /\ mockProducts[i].id = u.id
                   /\ s.t = "num" /\ s.v >= 0
                   /\ q.t = "num" /\ q.v >= 1 )
                 => /\ mockProducts'[i].stock_quantity =
                         Num(IF s.v > q.v THEN s.v - q.v ELSE 0)
                    /\ req'[r].inventory.new_stock_level =
                         Num(IF s.v > q.v THEN s.v - q.v ELSE 0)]_vars

\* C4: in every reachable state the stock_quantity of every product, in
\* the mock data and in MongoDB, is a number >= 0.
C4_StockNeverNegative ==
  /\ \A i \in DOMAIN mockProducts :
       JsGe(mockProducts[i].stock_quantity, Num(0))
  /\ \A i \in DOMAIN mongoProducts :
       JsGe(mongoProducts[i].stock_quantity, Num(0))

\* C5: when the requests that are placed at the same time, for the same
\* product of stock InitStock, have all been answered with a successful
\* inventory step, the stored stock is not negative and is the result of
\* applying their decrements one after the other:
\* max(0, max(0, s - q1) - q2).
C5_ConcurrentDecrementsSerialized ==
  LET RECURSIVE applied(_)
      applied(n) ==
        IF n = 0 THEN InitStock
        ELSE LET left == applied(n - 1) - req[n].order.quantity.v
             IN  IF left > 0 THEN left ELSE 0
  IN  ( /\ ~isMongoConnected
        /\ connectionEvents = 0
        /\ \A r \in ReqIds :
             req[r].pc = "done" /\ req[r].inventory.state = "ok" )
      => /\ JsGe(mockProducts[1].stock_quantity, Num(0))
         /\ mockProducts[1].stock_quantity = Num(applied(NumReq))

\* C6: setting the status of an order of quantity q, whose inventory step
\* succeeded when it was placed, to cancelled raises the stored stock of
\* the order's product by exactly q.
C6_CancelRestoresStock ==
  [][\A id \in ClientIds, r \in ReqIds :
       ( /\ IntegrationUpdateStatus(id, "cancelled")
         /\ updateOrderCode(id, "cancelled") = 200
         /\ ~isMongoConnected
         /\ req[r].order.id = id
         /\ req[r].pc = "done"
         /\ req[r].inventory.found /\ req[r].inventory.state = "ok"
         /\ req[r].order.quantity.t = "num" )
       => \A i \in DOMAIN mockProducts :
            ( mockProducts[i].id = req[r].update.id
              /\ mockProducts[i].stock_quantity.t = "num" )
            => mockProducts'[i].stock_quantity =
                 Num(mockProducts[i].stock_quantity.v
                       + req[r].order.quantity.v)]_vars

\* C7: when every call to the routing provider fails while an order is
\* placed with the mock data, the delivery step still stores a Delivery
\* of the order, with an estimated time of delivery.
C7_DeliveryCreatedWithoutRoute ==
  \A r \in ReqIds :
    ( /\ req[r].pc \in {"warehouse", "done"}
      /\ req[r].order # NoOrder
      /\ req[r].provider_down
      /\ req[r].order.id.k = "int"
      /\ ~isMongoConnected /\ connectionEvents = 0 )
    => \E i \in DOMAIN mockDeliveries :
         /\ mockDeliveries[i].order_id = r
         /\ mockDeliveries[i].estimated_delivery_time = "estimate"

\* C8: calculateRoute never ends by throwing to its caller: when the
\* primary computation fails it returns the result of the distance-matrix
\* fallback.
C8_CalculateRouteReturns ==
  \A r \in ReqIds : req[r].route \in {"none", "success", "failure"}

\* C9: PATCH /api/integration/order/:id/status with a status that is none
\* of pending, shipped, delivered, cancelled (a missing status included)
\* is answered with an error and changes no stored record.
C9_InvalidStatusChangesNothing ==
  [][\A id \in ClientIds, status \in StatusInputs \ OrderStatuses :
       IntegrationUpdateStatus(id, status)
       => /\ updateOrderCode(id, status) >= 400
          /\ UNCHANGED stores]_vars

\* C10: after PATCH /api/integration/order/:id/status has set an order
\* that has a Delivery and a Warehouse record to shipped, the stored
\* Delivery of the order has status in_transit and the stored Warehouse
\* record of the order has status dispatched.
C10_ShippedPropagates ==
  [][\A id \in ClientIds, r \in ReqIds :
       ( /\ IntegrationUpdateStatus(id, "shipped")
         /\ updateOrderCode(id, "shipped") = 200
         /\ ~isMongoConnected
         /\ req[r].order.id = id
         /\ req[r].pc = "done"
         /\ req[r].delivery = "ok" /\ req[r].warehouse = "ok" )
       => /\ \A i \in DOMAIN mockDeliveries :
               mockDeliveries[i].order_id = r
               => mockDeliveries'[i].status = "in_transit"
          /\ \A i \in DOMAIN mockWarehouses :
               mockWarehouses[i].warehouse_id = r
               => mockWarehouses'[i].status = "dispatched"]_vars

\* C11: an update of a delivery's status to delivered (picked_up) from
\* another status leaves actual_delivery_time (pickup_time) set, to the time
\* of the update when it was null before, and no status update, a repeated
\* one included, changes a timestamp that is set.
C11_TimestampSetOnce ==
  [][\A newStatus \in DeliveryStatusInputs :
       (DeliveryUpdateStatus(newStatus) \/ MongoDeliverySave(newStatus))
       => /\ delivery.pickup_time # NoTime
               => delivery'.pickup_time = delivery.pickup_time
          /\ delivery.actual_delivery_time # NoTime
               => delivery'.actual_delivery_time = delivery.actual_delivery_time
          /\ newStatus = "picked_up" /\ delivery.status # "picked_up"
               => /\ delivery'.pickup_time # NoTime
                  /\ delivery.pickup_time = NoTime
                       => delivery'.pickup_time = clock
          /\ newStatus = "delivered" /\ delivery.status # "delivered"
               => /\ delivery'.actual_delivery_time # NoTime
                  /\ delivery.actual_delivery_time = NoTime
                       => delivery'.actual_delivery_time = clock]_vars

\* a Delivery object whose status delivered was applied again after the
\* update that set actual_delivery_time
C11_Witness ==
  /\ delivery.kind = "object"
  /\ delivery.status = "delivered"
  /\ delivery.actual_delivery_time # NoTime
  /\ delivery.updated_at > delivery.actual_delivery_time

\* C12: over the status updates of an order, through PATCH
\* /api/orders/:id/status and PATCH /api/integration/order/:id/status, the
\* status only moves forward along pending, shipped, delivered, and cancelled
\* is entered from pending or shipped only.
C12_StatusMovesForward ==
  [][LET rank(st) == CASE st = "pending" -> 1
                       [] st = "shipped" -> 2
                       [] st = "delivered" -> 3
                       [] OTHER -> 0
         legal(old, new) ==
           \/ new = old
           \/ rank(old) > 0 /\ rank(new) > rank(old)
           \/ new = "cancelled" /\ old \in {"pending", "shipped"}
     IN  /\ \A i \in DOMAIN mockOrders :
              mockOrders[i].status \in OrderStatuses
                /\ mockOrders'[i].status \in OrderStatuses
              => legal(mockOrders[i].status, mockOrders'[i].status)
         /\ \A i \in DOMAIN mongoOrders :
              mongoOrders[i].status \in OrderStatuses
                /\ mongoOrders'[i].status \in OrderStatuses
              => legal(mongoOrders[i].status, mongoOrders'[i].status)]_vars

\* C13: every Delivery record that POST /api/integration/order creates is
\* created with status pending, and every warehouse record it creates starts
\* in stage picking.
C13_CreatedPendingAndPicking ==
  [][\A r \in ReqIds :
       /\ DeliveryWrite(r)
            => /\ Len(mockDeliveries') > Len(mockDeliveries)
                    => mockDeliveries'[Len(mockDeliveries')].status = "pending"
               /\ Len(mongoDeliveries') > Len(mongoDeliveries)
                    => mongoDeliveries'[Len(mongoDeliveries')].status = "pending"
       /\ Warehouse(r)
            => /\ Len(mockWarehouses') > Len(mockWarehouses)
                    => mockWarehouses'[Len(mockWarehouses')].status = "picking"
               /\ Len(mongoWarehouses') > Len(mongoWarehouses)
                    => mongoWarehouses'[Len(mongoWarehouses')].status = "picking"]_vars

\* C14: once step 1 of POST /api/integration/order has stored the Order,
\* the record stays stored: the inventory, delivery and warehouse steps,
\* whatever their outcome, leave the order stores as they are, and the order
\* of every request that got past step 1 is in a store.
C14_OrderStaysStored ==
  [][/\ (\E r \in ReqIds : req[r].order # NoOrder /\ req'[r] # req[r])
          => UNCHANGED <<mockOrders, mongoOrders>>
     /\ \A r \in ReqIds :
          req'[r].order # NoOrder =>
            \E i \in ordersOf(r)' :
              \/ i \in DOMAIN mockOrders' /\ mockOrders'[i].id = req'[r].order.id
              \/ i \in DOMAIN mongoOrders' /\ mongoOrders'[i].id = req'[r].order.id]_vars

\* a request answered after its delivery step failed, its order in a store
C14_Witness ==
  \E r \in ReqIds :
    /\ req[r].pc = "done"
    /\ req[r].order # NoOrder
    /\ req[r].delivery = "failed"
    /\ ordersOf(r) # {}

\* C15: a request to POST /api/integration/order whose Order was created is
\* answered only after the warehouse step was attempted, whether the
\* inventory step and the delivery step succeeded or failed: the answer is
\* 200 and the report holds the outcome of each of the three steps.
C15_WarehouseStepAlwaysAttempted ==
  \A r \in ReqIds :
    req[r].order # NoOrder =>
      /\ req[r].warehouse # "none" => req[r].pc = "done"
      /\ req[r].pc = "done" =>
           /\ req[r].code = 200
           /\ req[r].inventory.state \in {"ok", "failed"}
           /\ req[r].delivery \in {"ok", "failed"}
           /\ req[r].warehouse \in {"ok", "failed"}

\* a request whose inventory and delivery steps failed and whose warehouse
\* step was attempted all the same
C15_Witness ==
  \E r \in ReqIds :
    /\ req[r].pc = "done"
    /\ req[r].order # NoOrder
    /\ req[r].inventory.state = "failed"
    /\ req[r].delivery = "failed"
    /\ req[r].warehouse \in {"ok", "failed"}
    /\ req[r].code = 200

\* C16: when the store write of step 1 of POST /api/integration/order
\* fails, the request is answered with an error and none of the inventory,
\* delivery and warehouse steps runs: the failing step changes no store, the
\* report of the request stays empty and no Delivery or warehouse record of
\* the request exists.
C16_FailedCreateOrderAborts ==
  [][\A r \in ReqIds :
       /\ req[r].pc = "idle" /\ req'[r].pc # "idle" /\ req'[r].order = NoOrder
            => req'[r].pc = "done" /\ UNCHANGED stores
       /\ req'[r].pc = "done" /\ req'[r].order = NoOrder
            => /\ req'[r].code = 500
               /\ req'[r].inventory = NoInventory
               /\ req'[r].delivery = "none"
               /\ req'[r].warehouse = "none"
               /\ deliveriesOf(r)' = {}
               /\ warehousesOf(r)' = {}]_vars

\* a request whose order could not be saved, answered 500
C16_Witness ==
  \E r \in ReqIds :
    /\ req[r].pc = "done"
    /\ req[r].order = NoOrder
    /\ req[r].code = 500

\* C17: when no product matches the order, the inventory step of POST
\* /api/integration/order is reported as succeeded with the stock level
\* computed from the assumed stock of 100, the order stays created and the
\* step changes no stored stock.
C17_ProductNotFoundFallsBack ==
  [][\A r \in ReqIds, queryError \in BOOLEAN :
       /\ InventoryRead(r, queryError)
       /\ ~findThrows(getProducts(queryError), req[r].order)
       /\ findIndexOf(getProducts(queryError), req[r].order) = 0
       => /\ req'[r].pc = "route"
          /\ req'[r].inventory.state = "ok"
          /\ req'[r].inventory.new_stock_level =
               MathMax(Num(0), JsSub(Num(DefaultStock), req[r].order.quantity))
          /\ ordersOf(r)' # {}
          /\ UNCHANGED stores]_vars

\* a request for a product the inventory does not hold, answered with the
\* inventory step succeeded and the assumed stock less the quantity 1
C17_Witness ==
  \E r \in ReqIds :
    /\ req[r].pc = "done"
    /\ req[r].code = 200
    /\ ~req[r].inventory.found
    /\ req[r].inventory.state = "ok"
    /\ req[r].inventory.new_stock_level = Num(DefaultStock - 1)
    /\ ordersOf(r) # {}

\* C18: the steps of one request to POST /api/integration/order run in the
\* order create Order, inventory step, delivery step, warehouse step: a
\* request only moves forward through them, a step has its outcome exactly
\* when the request is past it, and no step has begun before the one before
\* it has finished.  Steps of different requests interleave.
C18_StepsRunInOrder ==
  [][LET at(pc) == CASE pc = "idle" -> 0
                     [] pc = "inventory_read" -> 1
                     [] pc = "inventory_write" -> 2
                     [] pc = "route" -> 3
                     [] pc = "delivery_write" -> 4
                     [] pc = "warehouse" -> 5
                     [] pc = "done" -> 6
     IN  \A r \in ReqIds :
           /\ req'[r].pc # req[r].pc => at(req'[r].pc) > at(req[r].pc)
           /\ req'[r].order # NoOrder =>
                /\ req'[r].inventory.state \in {"ok", "failed"}
                     <=> at(req'[r].pc) >= 3
                /\ req'[r].route # "none" <=> at(req'[r].pc) >= 4
                /\ req'[r].delivery \in {"ok", "failed"}
                     <=> at(req'[r].pc) >= 5
                /\ req'[r].warehouse \in {"ok", "failed"}
                     <=> at(req'[r].pc) = 6]_vars

\* two requests in the middle of their steps at the same time
C18_Witness ==
  /\ req[1].pc = "delivery_write"
  /\ req[2].pc = "inventory_write"

\* C19: optimizeDeliveryRoute called with an empty destination list returns
\* an unsuccessful result and makes no call to the mapping provider.
C19_EmptyListFailsWithoutCall ==
  maps.called /\ maps.destinations = 0
    => ~maps.result.success /\ maps.calls = 0

\* a call with an empty list has returned
C19_Witness ==
  maps.called /\ maps.destinations = 0 /\ ~maps.result.success

utilizationWithinCapacity(w) ==
  JsLe(Num(0), w.current_utilization) /\ JsLe(w.current_utilization, w.capacity)

C21_UtilizationWithinCapacity ==
  /\ \A i \in DOMAIN mockWarehouses :
       utilizationWithinCapacity(mockWarehouses[i])
  /\ \A i \in DOMAIN mongoWarehouses :
       utilizationWithinCapacity(mongoWarehouses[i])

(***************************************************************************)
(* C22: every stored Delivery has a status among pending, picked_up,       *)
(* in_transit, delivered, failed and cancelled, whichever operation        *)
(* created or updated it.                                                  *)
(***************************************************************************)
C22_StoredDeliveryStatusValid ==
  /\ \A i \in DOMAIN mockDeliveries : mockDeliveries[i].status \in validStatuses
  /\ \A i \in DOMAIN mongoDeliveries :
       mongoDeliveries[i].status \in validStatuses

(***************************************************************************)
(* C23: a call of the routing provider that is never answered is           *)
(* eventually treated as failed, so every placement that has started       *)
(* eventually returns its response.                                        *)
(***************************************************************************)
C23_PlaceOrderReturns ==
  \A r \in ReqIds : (req[r].pc \notin {"idle", "done"}) ~> (req[r].pc = "done")

(***************************************************************************)
(* C24: for an empty address, geocodeAddress, and calculateRoute given a   *)
(* textual origin or destination, fail with address-not-found without any  *)
(* call of the provider.                                                   *)
(***************************************************************************)
C24_EmptyAddressFailsWithoutCall ==
  (geocode.called /\ geocode.empty
     /\ geocode.op \in {"geocodeAddress", "calculateRoute"})
    => geocode.calls = 0 /\ geocode.outcome = "address_not_found"

(***************************************************************************)
(* C25: an order created through DatabaseService.createOrder is returned   *)
(* by every later getOrders and getOrderById, whatever 'connected' and     *)
(* 'disconnected' events and query errors come in between: a read never    *)
(* consults another store than the one the order was written to.           *)
(***************************************************************************)
C25_CreatedOrderIsRead ==
  \A r \in ReqIds :
    req[r].order # NoOrder
      => \A queryError \in BOOLEAN :
           /\ \E i \in DOMAIN getOrders(queryError) :
                getOrders(queryError)[i].order_id = r
           /\ getOrderById(r, queryError) # <<>>

(***************************************************************************)
(* C26: every stored product has a status among active, inactive and       *)
(* discontinued; the inventory step of a placement leaves it there.        *)
(***************************************************************************)
C26_ProductStatusValid ==
  /\ \A i \in DOMAIN mockProducts : mockProducts[i].status \in ProductStatuses
  /\ \A i \in DOMAIN mongoProducts : mongoProducts[i].status \in ProductStatuses

(***************************************************************************)
(* C27: a placement leaves the warehouse facilities alone: no step of      *)
(* POST /api/integration/order adds an entry to, or changes an entry of,   *)
(* the list getWarehouses returns.                                         *)
(***************************************************************************)
C27_PlaceOrderKeepsWarehouses ==
  [][(\E r \in ReqIds : req'[r] # req[r])
       => \A queryError \in BOOLEAN :
            getWarehouses(isMongoConnected', mongoWarehouses', mockWarehouses',
                          queryError)
              = getWarehouses(isMongoConnected, mongoWarehouses,
                              mockWarehouses, queryError)]_vars

(***************************************************************************)
(* C28: a Delivery with status delivered has an actual_delivery_time and   *)
(* a Delivery with status picked_up has a pickup_time, whichever           *)
(* operation gave it the status.                                           *)
(***************************************************************************)
C28_StatusHasTimestamp ==
  /\ delivery.status = "delivered" => delivery.actual_delivery_time # NoTime
  /\ delivery.status = "picked_up" => delivery.pickup_time # NoTime

(***************************************************************************)
(* C29: for a list of n >= 1 deliveries and a provider that answers        *)
(* successfully, bulk-optimize responds success and optimized_deliveries   *)
(* is a permutation of the deliveries of the request.                      *)
(***************************************************************************)
C29_BulkOptimizePermutes ==
  (bulk.called /\ bulk.deliveries >= 1 /\ bulk.provider_ok)
    => /\ bulk.code = 200
       /\ Len(bulk.optimized_deliveries) = bulk.deliveries
       /\ \A d \in 1..bulk.deliveries :
            \E i \in DOMAIN bulk.optimized_deliveries :
              bulk.optimized_deliveries[i] = d

(***************************************************************************)
(* C30: after any sequence of addZone and removeZone on a warehouse the    *)
(* ids of its zones are pairwise distinct, so removeZone(id) removes at    *)
(* most one zone.                                                          *)
(***************************************************************************)
C30_ZoneIdsDistinct ==
  /\ \A i, j \in DOMAIN warehouse.zones :
       warehouse.zones[i] = warehouse.zones[j] => i = j
  /\ warehouse.removed <= 1

====
